---- MODULE Spec2Model ----
(***************************************************************************)
(* Model of zerodevapp/go-sdk: the receipt poller                          *)
(* (useropbuilder.WaitForUserOpReceipt / GetUserOpReceipt) and the signer  *)
(* (signer.SignUserOpHash / VerifyUserOpSignature / SignAuthorization).    *)
(*                                                                         *)
(* Time is discrete, one unit = one second.  A goroutine step takes no     *)
(* time; time passes only while a query is in flight or the poll loop is   *)
(* parked in its select statement.                                         *)
(***************************************************************************)
EXTENDS Integers, Sequences, FiniteSets, TLC

VARIABLES
    \* ---- WaitForUserOpReceipt: arguments and locals
    pollInterval,      \* parameter pollInterval (lines 369-371 overwrite a zero)
    timeout,           \* parameter timeout (lines 372-374 overwrite a zero)
    pc,                \* position of the polling goroutine
    receipt,           \* outer variable receipt (line 384)
    err,               \* outer variable err (line 384)
    attemptNum,        \* local attemptNum (0 before line 391)
    outcome,           \* what the call returned
    \* ---- timeoutCtx (context.WithTimeout) and the caller's ctx
    parentCancelled,   \* the caller's ctx is done
    ctxErr,            \* timeoutCtx.Err(): "none", "canceled", "deadline"
    timerArmed,        \* the deadline timer of timeoutCtx is armed
    deadlineAt,        \* the instant the deadline timer fires
    \* ---- ticker (time.NewTicker)
    tickerActive,      \* the ticker is running
    nextTickAt,        \* the instant of the ticker's next firing
    tickPending,       \* a tick is buffered in ticker.C
    \* ---- environment and observation
    now,               \* the clock
    queriesStarted,    \* GetUserOpReceipt invocations started in this call
    inFlight,          \* GetUserOpReceipt invocations started and not returned
    okAt,              \* index of the first successful invocation (0: none)
    okReceipt,         \* the receipt that invocation produced
    tickerCreated,     \* time.NewTicker was called in this call
    timerCreated,      \* a deadline timer was armed in this call
    cancelInCall,      \* the caller cancelled during the call, ending timeoutCtx
    cancelParked,      \* the caller cancelled while the loop was parked
    cancelQueries,     \* queriesStarted at that cancellation
    cancelTime,        \* the clock at that cancellation
    queryCtxDone,      \* timeoutCtx was done when the query in flight started
    interrupted,       \* a query in flight was aborted by the end of timeoutCtx
    \* ---- signer: one SignUserOpHash call, then one VerifyUserOpSignature call
    sgPc,              \* "start", "signed", "verified"
    userOpHash,        \* the userOpHash string passed to both calls
    privateKey,        \* the private key passed to SignUserOpHash
    address,           \* the address string passed to VerifyUserOpSignature
    signature,         \* the signature string passed to VerifyUserOpSignature
    signOut,           \* what SignUserOpHash returned
    verifyOut,         \* what VerifyUserOpSignature returned
    \* ---- signer: one SignAuthorization call
    chainID,           \* parameter chainID
    delegateAddressHex, \* parameter delegateAddressHex
    nonce,             \* parameter nonce
    authOut,           \* what SignAuthorization returned
    libCalls,          \* the library calls the last signer operation made
    \* ---- a second WaitForUserOpReceipt call on the same client
    other              \* the call that is not taking the step: its id and its state

pollVars == << pollInterval, timeout, pc, receipt, err,
               attemptNum, outcome, parentCancelled, ctxErr, timerArmed, deadlineAt,
               tickerActive, nextTickAt, tickPending, now, queriesStarted, inFlight,
               okAt, okReceipt, tickerCreated, timerCreated, cancelInCall,
               cancelParked, cancelQueries, cancelTime, queryCtxDone, interrupted >>

signVars == << sgPc, userOpHash, privateKey, address, signature, signOut, verifyOut,
               chainID, delegateAddressHex, nonce, authOut, libCalls >>

vars == << pollVars, signVars, other >>

----------------------------------------------------------------------------
(* Bounds of the model *)

\* largest pollInterval / timeout the caller passes (seconds)
MaxPollInterval == 2
MaxTimeout == 3
\* the longest a query in flight outlasts the deadline of the call (seconds)
MaxOverrun == 1
\* private keys 1 .. NumKeys
NumKeys == 2
\* digests built from the seeds 0 .. MaxDigestSeed
MaxDigestSeed == 1
\* two concurrent calls: their pollInterval, and their largest timeout (seconds)
PairPollInterval == 1
MaxPairTimeout == 2

(* Program constants *)

\* 2 * time.Second
DefaultPollInterval == 2
\* 60 * time.Second
DefaultTimeout == 60
\* http.StatusOK
StatusOK == 200
\* magic := byte(0x05)
Magic == 5

PollIntervals == {-1} \cup (0 .. MaxPollInterval)
Timeouts == {-1} \cup (0 .. MaxTimeout)

----------------------------------------------------------------------------
(* Bytes and hex strings.  A string is a sequence of one-character strings, *)
(* a byte slice a sequence of numbers 0 .. 255.                             *)

LowerDigits == << "0", "1", "2", "3", "4", "5", "6", "7", "8", "9",
                  "a", "b", "c", "d", "e", "f" >>
UpperDigits == << "0", "1", "2", "3", "4", "5", "6", "7", "8", "9",
                  "A", "B", "C", "D", "E", "F" >>

\* mutant: only lower-case digits are hex digits
HexVal_LowerOnly(c) ==
    IF \E i \in 1 .. 16 : LowerDigits[i] = c
    THEN (CHOOSE i \in 1 .. 16 : LowerDigits[i] = c) - 1
    ELSE -1

\* the value of a hex digit of either case, -1 for any other character
HexVal(c) ==
    IF \E i \in 1 .. 16 : LowerDigits[i] = c
    THEN (CHOOSE i \in 1 .. 16 : LowerDigits[i] = c) - 1
    ELSE IF \E i \in 1 .. 16 : UpperDigits[i] = c
    THEN (CHOOSE i \in 1 .. 16 : UpperDigits[i] = c) - 1
    ELSE -1

\* hex.EncodeToString: two lowercase digits per byte
EncodeToString(b) ==
    [ j \in 1 .. 2 * Len(b) |->
        LET x == b[(j + 1) \div 2]
        IN LowerDigits[(IF j % 2 = 1 THEN x \div 16 ELSE x % 16) + 1] ]

\* the same digits in upper case (what a caller may pass in)
EncodeUpper(b) ==
    [ j \in 1 .. 2 * Len(b) |->
        LET x == b[(j + 1) \div 2]
        IN UpperDigits[(IF j % 2 = 1 THEN x \div 16 ELSE x % 16) + 1] ]

\* common.has0xPrefix
Has0xPrefix(str) == Len(str) >= 2 /\ str[1] = "0" /\ str[2] \in {"x", "X"}

\* common.Hex2Bytes: hex.DecodeString with its error dropped, which yields
\* the bytes of the pairs before the first invalid character
Hex2Bytes(str) ==
    LET pairs == Len(str) \div 2
        bad == { i \in 1 .. 2 * pairs : HexVal(str[i]) < 0 }
        n == IF bad = {} THEN pairs
             ELSE ((CHOOSE i \in bad : \A j \in bad : i <= j) - 1) \div 2
    IN [ i \in 1 .. n |-> HexVal(str[2 * i - 1]) * 16 + HexVal(str[2 * i]) ]

\* common.FromHex: drops a 0x prefix, pads an odd length with a leading "0"
FromHex(str) ==
    LET s1 == IF Has0xPrefix(str) THEN SubSeq(str, 3, Len(str)) ELSE str
        s2 == IF Len(s1) % 2 = 1 THEN << "0" >> \o s1 ELSE s1
    IN Hex2Bytes(s2)

\* common.HexToAddress: the last 20 bytes of FromHex, left-padded with zeros
HexToAddress(str) ==
    LET b == FromHex(str)
        c == IF Len(b) > 20 THEN SubSeq(b, Len(b) - 19, Len(b)) ELSE b
    IN [ i \in 1 .. 20 |-> IF i > 20 - Len(c) THEN c[i - (20 - Len(c))] ELSE 0 ]

\* the bytes of an ASCII string of the personal-message prefix
PrefixBytes ==
    << 25, 69, 116, 104, 101, 114, 101, 117, 109, 32, 83, 105, 103, 110, 101, 100,
       32, 77, 101, 115, 115, 97, 103, 101, 58, 10 >>

\* the decimal digits of n >= 0 as ASCII bytes (fmt %d)
RECURSIVE DecimalBytes(_)
DecimalBytes(n) ==
    IF n < 10 THEN << 48 + n >> ELSE DecimalBytes(n \div 10) \o << 48 + (n % 10) >>

----------------------------------------------------------------------------
(* The go-ethereum primitives the signer calls, over a small stand-in for  *)
(* Keccak-256 and for secp256k1: a hash with 32-byte output and a          *)
(* recoverable signature scheme over the integers modulo 250.  What is     *)
(* kept: lengths and layout ([R || S || V], V in {0, 1}), determinism,     *)
(* recovery of the signer's key from (hash, signature), a different key    *)
(* for a flipped V, and an error for a recovery id or a component out of   *)
(* range.                                                                  *)

\* the sum of the position-weighted bytes lo .. hi of b
RECURSIVE Mix(_, _, _)
Mix(b, lo, hi) ==
    IF lo > hi THEN 0
    ELSE IF lo = hi THEN ((b[lo] + 1) * (7 * lo * lo + 13 * lo + 1)) % 65521
    ELSE LET mid == (lo + hi) \div 2
         IN (Mix(b, lo, mid) + Mix(b, mid + 1, hi)) % 65521

\* crypto.Keccak256: 32 bytes determined by the input
Keccak256(b) ==
    LET seed == (Mix(b, 1, Len(b)) + Len(b) + 7) % 65521
    IN [ i \in 1 .. 32 |-> (seed * (2 * i + 1) + (seed \div 256) + i) % 256 ]

\* accounts.TextHash: Keccak256("\x19Ethereum Signed Message:\n" + len + data)
TextHash(data) == Keccak256(PrefixBytes \o DecimalBytes(Len(data)) \o data)

\* a number below 65536 as a 32-byte big-endian integer
BE32(x) ==
    [ i \in 1 .. 32 |-> IF i = 32 THEN x % 256 ELSE IF i = 31 THEN (x \div 256) % 256 ELSE 0 ]

\* the number a 32-byte big-endian integer holds, -1 when it is out of the
\* range of the scheme
FromBE32(b) ==
    IF \A i \in 1 .. 30 : b[i] = 0 THEN b[31] * 256 + b[32] ELSE -1

\* the number the scheme signs for a 32-byte hash
HashScalar(h) == (h[1] * 256 + h[2] + h[32]) % 250

\* the public key of a private key
PublicKey(k) == (k * 7) % 250

\* crypto.PubkeyToAddress: the last 20 bytes of Keccak256(X || Y)
PubkeyToAddress(pub) ==
    SubSeq(Keccak256(BE32(pub) \o BE32((pub * pub) % 250)), 13, 32)

\* crypto.Sign: [R || S || V] with V in {0, 1}, or an error for a hash that
\* is not 32 bytes long
CryptoSign(h, k) ==
    IF Len(h) # 32 THEN [sig |-> << >>, err |-> "hash is required to be exactly 32 bytes"]
    ELSE LET z == HashScalar(h)
             n == 2 + ((z + 3 * k) % 200)
             r == n \div 2
             v == n % 2
             sv == 1 + ((z + k + n) % 250)
         IN [sig |-> BE32(r) \o BE32(sv) \o << v >>, err |-> "nil"]

\* crypto.SigToPub: the public key recovered from (hash, signature), or an
\* error
SigToPub(h, sig) ==
    IF Len(sig) # 65 THEN [pub |-> -1, err |-> "invalid signature length"]
    ELSE IF sig[65] >= 4 THEN [pub |-> -1, err |-> "invalid signature recovery id"]
    ELSE LET r == FromBE32(SubSeq(sig, 1, 32))
             sv == FromBE32(SubSeq(sig, 33, 64))
             v == sig[65]
         IN IF v > 1 \/ r < 1 \/ r > 125 \/ sv < 1 \/ sv > 250
            THEN [pub |-> -1, err |-> "recovery failed"]
            ELSE [pub |-> PublicKey((sv - 1 - HashScalar(h) - (2 * r + v)) % 250),
                  err |-> "nil"]

----------------------------------------------------------------------------
(* signer.SignUserOpHash and signer.VerifyUserOpSignature *)

\* A call into the hashing / curve library, as the signer makes it.
\* fn "Keccak256Hash": data is the message, hash the result;
\* fn "Sign": hash is the hash passed, data the signature returned;
\* fn "SigToPub": hash is the hash passed, data the signature passed.
LibCall(fn, hash, data) == [fn |-> fn, hash |-> hash, data |-> data]

\* mutant: a digest longer than 32 bytes is let through
ValidHashLength_AtLeast(n) == n >= 32

\* lines 30 and 76: len(hashBytes) != 32 is refused
ValidHashLength(n) == n = 32

\* mutant: a signature longer than 65 bytes is let through
ValidSignatureLength_AtLeast(n) == n >= 65

\* line 82: len(sigBytes) != 65 is refused
ValidSignatureLength(n) == n = 65

\* mutant: the recovery byte is returned as the library produced it
WireV_Raw(v) == v

\* lines 47-50: v := signatureBytes[64]; if v < 27 { v += 27 }
WireV(v) == IF v < 27 THEN (v + 27) % 256 ELSE v

\* mutant: the recovery byte is passed to SigToPub as it came
RecoveryId_Raw(v) == v

\* lines 87-89: if sigBytes[64] >= 27 { sigBytes[64] -= 27 }
RecoveryId(v) == IF v >= 27 THEN v - 27 ELSE v

\* SignUserOpHash(userOpHash, privateKey): (signature string, error), and
\* the library calls made on the way (lib)
SignUserOpHash(hashStr, k) ==
    LET hashBytes == FromHex(hashStr)
    IN IF ~ValidHashLength(Len(hashBytes))
       THEN [sig |-> << >>, err |-> "invalid hash length", lib |-> << >>]
       ELSE LET prefixedHash == TextHash(hashBytes)
                signed == CryptoSign(prefixedHash, k)
                call == LibCall("Sign", prefixedHash, signed.sig)
            IN IF signed.err # "nil"
               THEN [sig |-> << >>, err |-> "failed to sign hash", lib |-> << call >>]
               ELSE LET signatureBytes == signed.sig
                        v == WireV(signatureBytes[65])
                        r == SubSeq(signatureBytes, 1, 32)
                        sv == SubSeq(signatureBytes, 33, 64)
                        useropSignature == (r \o sv) \o << v >>
                    IN [sig |-> << "0", "x" >> \o EncodeToString(useropSignature),
                        err |-> "nil", lib |-> << call >>]

\* mutant: an address that does not match is reported as an error
CompareResult_MismatchError(recoveredAddr, expectedAddr) ==
    IF recoveredAddr = expectedAddr THEN [ok |-> TRUE, err |-> "nil"]
    ELSE [ok |-> FALSE, err |-> "address mismatch"]

\* line 106: return recoveredAddr == expectedAddr, nil
CompareResult(recoveredAddr, expectedAddr) ==
    [ok |-> recoveredAddr = expectedAddr, err |-> "nil"]

\* VerifyUserOpSignature(userOpHash, signature, address): (bool, error), and
\* the library calls made on the way (lib)
VerifyUserOpSignature(hashStr, sigStr, addrStr) ==
    LET hashBytes == FromHex(hashStr)
        sigBytes == FromHex(sigStr)
    IN IF ~ValidHashLength(Len(hashBytes))
       THEN [ok |-> FALSE, err |-> "invalid hash length", lib |-> << >>]
       ELSE IF ~ValidSignatureLength(Len(sigBytes))
       THEN [ok |-> FALSE, err |-> "invalid signature length", lib |-> << >>]
       ELSE LET normalized == [sigBytes EXCEPT ![65] = RecoveryId(sigBytes[65])]
                digest == TextHash(hashBytes)
                rec == SigToPub(digest, normalized)
                call == LibCall("SigToPub", digest, normalized)
            IN IF rec.err # "nil"
               THEN [ok |-> FALSE, err |-> "failed to recover public key",
                     lib |-> << call >>]
               ELSE LET recoveredAddr == PubkeyToAddress(rec.pub)
                        expectedAddr == HexToAddress(addrStr)
                        res == CompareResult(recoveredAddr, expectedAddr)
                    IN [ok |-> res.ok, err |-> res.err, lib |-> << call >>]

----------------------------------------------------------------------------
(* signer.SignAuthorization *)

\* A uint64 is its 8 big-endian bytes.  U64: the uint64 of a number below 2^31.
U64(n) == [ i \in 1 .. 8 |-> IF i <= 4 THEN 0 ELSE (n \div (256 ^ (8 - i))) % 256 ]

\* math.MaxUint64
MaxUint64 == [ i \in 1 .. 8 |-> 255 ]

\* rlp: the number of bytes of an integer without its leading zero bytes
\* (intsize), 0 for the integer 0
IntSize(u) ==
    LET nz == { i \in 1 .. 8 : u[i] # 0 }
    IN IF nz = {} THEN 0 ELSE 9 - (CHOOSE i \in nz : \A j \in nz : i <= j)

\* rlp: the last size big-endian bytes of an integer (putint)
PutInt(u, size) == SubSeq(u, 9 - size, 8)

\* mutant: an integer is encoded as a fixed 8-byte string
RlpUint_Fixed(u) == << 136 >> \o u

\* rlp: a uint64 (writeUint64): 0 is the empty string, a value below 128 is
\* its own encoding, any other value is a string of IntSize bytes
RlpUint(u) ==
    IF IntSize(u) = 0 THEN << 128 >>
    ELSE IF IntSize(u) = 1 /\ u[8] < 128 THEN << u[8] >>
    ELSE << 128 + IntSize(u) >> \o PutInt(u, IntSize(u))

\* rlp: a byte array shorter than 56 bytes (writeBytes)
RlpBytes(b) ==
    IF Len(b) = 1 /\ b[1] <= 127 THEN b ELSE << 128 + Len(b) >> \o b

\* mutant: every list gets the header of a long list
RlpShortList_LongHeader(payload) == << 248, Len(payload) >> \o payload

\* rlp: a list whose payload is shorter than 56 bytes: header, then payload
RlpShortList(payload) == << 192 + Len(payload) >> \o payload

\* rlp.EncodeToBytes([]interface{}{chainID, addr, nonce})
RlpEncodeTuple(chain, addr, n) ==
    RlpShortList(RlpUint(chain) \o RlpBytes(addr) \o RlpUint(n))

\* mutant: the authorization message is hashed as a personal message
AuthorizationHash_Prefixed(msg) == TextHash(msg)

\* line 150: crypto.Keccak256Hash(authMessage)
AuthorizationHash(msg) == Keccak256(msg)

\* mutant: the 32 bytes are rendered as they are
BigIntBytes_Fixed(b) == b

\* big.Int.SetBytes(b).Bytes(): the bytes without the leading zeros
BigIntBytes(b) ==
    LET nz == { i \in 1 .. Len(b) : b[i] # 0 }
    IN IF nz = {} THEN << >>
       ELSE SubSeq(b, CHOOSE i \in nz : \A j \in nz : i <= j, Len(b))

\* fmt.Sprintf("%d", v)
Sprintf_d(n) ==
    LET d == DecimalBytes(n) IN [ i \in 1 .. Len(d) |-> LowerDigits[d[i] - 47] ]

\* the *types.SignedAuthorization of a nil return
NilAuthorization ==
    [ChainID |-> U64(0), Address |-> << >>, Nonce |-> U64(0), R |-> << >>, S |-> << >>,
     V |-> << >>, YParity |-> 0]

\* SignAuthorization(chainID, delegateAddressHex, nonce, privateKey):
\* (*types.SignedAuthorization, error), and the library calls made on the
\* way (lib).  rlp.EncodeToBytes has no error for these three types.
SignAuthorization(chain, addrHex, n, k) ==
    LET addr == HexToAddress(addrHex)
        rlpEncoded == RlpEncodeTuple(chain, addr, n)
        authMessage == << Magic >> \o rlpEncoded
        authHash == AuthorizationHash(authMessage)
        signed == CryptoSign(authHash, k)
        calls == << LibCall("Keccak256Hash", authHash, authMessage),
                    LibCall("Sign", authHash, signed.sig) >>
    IN IF signed.err # "nil"
       THEN [auth |-> NilAuthorization, err |-> "failed to sign authorization",
             lib |-> calls]
       ELSE LET r == BigIntBytes(SubSeq(signed.sig, 1, 32))
                s == BigIntBytes(SubSeq(signed.sig, 33, 64))
                v == signed.sig[65]
                yParity == IF v >= 27 THEN v - 27 ELSE v
            IN [auth |-> [ChainID |-> chain,
                          Address |-> addrHex,
                          Nonce |-> n,
                          R |-> << "0", "x" >> \o EncodeToString(r),
                          S |-> << "0", "x" >> \o EncodeToString(s),
                          V |-> Sprintf_d(v),
                          YParity |-> yParity % 256],
                err |-> "nil",
                lib |-> calls]

----------------------------------------------------------------------------
(* The inputs of the signer *)

Keys == 1 .. NumKeys

\* the byte slices a caller passes as digest: 31, 32 and 33 bytes long
DigestBytes(seed, n) == [ i \in 1 .. n |-> (seed * 37 + i * 11) % 256 ]

HashLengths == {31, 32, 33}

\* a byte slice as the strings a caller may write for it
HexForms(b) ==
    { << "0", "x" >> \o EncodeToString(b),
      EncodeToString(b),
      << "0", "X" >> \o EncodeUpper(b) }

HashStrings ==
    UNION { HexForms(DigestBytes(seed, n)) : seed \in 0 .. MaxDigestSeed, n \in HashLengths }

\* the address of a private key, as crypto.PubkeyToAddress(priv.PublicKey)
AddressOf(k) == PubkeyToAddress(PublicKey(k))

AddressStrings ==
    UNION { HexForms(AddressOf(k)) \cup { << "0", "x" >> \o EncodeUpper(AddressOf(k)) } :
            k \in Keys }

\* the signature strings a caller may pass to VerifyUserOpSignature once
\* SignUserOpHash has returned sig: sig itself, sig without its prefix, one
\* byte short, one byte long, with the recovery byte as 0/1, with the other
\* recovery byte, with a recovery byte the curve library refuses; when
\* SignUserOpHash failed, the empty string and one byte
SignatureStrings(sig) ==
    IF sig = << >> THEN { << >>, << "0", "x", "1", "b" >> }
    ELSE LET b == FromHex(sig)
             hex(x) == << "0", "x" >> \o EncodeToString(x)
         IN { sig,
              EncodeToString(b),
              hex(SubSeq(b, 1, 64)),
              hex(b \o << 0 >>),
              hex([b EXCEPT ![65] = b[65] - 27]),
              hex([b EXCEPT ![65] = 55 - b[65]]),
              hex([b EXCEPT ![65] = 31]) }

\* the chain ids and nonces a caller passes to SignAuthorization, up to
\* 2^32 and 2^64 - 1
ChainIDs ==
    { U64(0), U64(1), U64(127), U64(128), U64(255), U64(256), U64(11155111),
      U64(1313161554), << 0, 0, 0, 1, 0, 0, 0, 0 >>, MaxUint64 }
Nonces == { U64(0), U64(1), U64(128), MaxUint64 }

\* the zero address
ZeroAddressHex == << "0", "x" >> \o [ i \in 1 .. 40 |-> "0" ]

\* KernelVersionToAddressesMap[KernelVersion033].AccountImplementationAddress
KernelImplementationHex ==
    << "0", "x", "d", "6", "C", "E", "D", "D", "e", "8", "4", "b", "e", "4",
       "0", "8", "9", "3", "d", "1", "5", "3", "B", "e", "9", "d", "4", "6",
       "7", "C", "D", "6", "a", "D", "3", "7", "8", "7", "5", "b", "2", "8" >>

\* the delegate addresses a caller passes to SignAuthorization: well-formed
\* ones, one of 21 bytes and one whose last two characters are no hex digits
DelegateAddresses ==
    { ZeroAddressHex,
      KernelImplementationHex,
      << "0", "x" >> \o EncodeToString(HexToAddress(KernelImplementationHex)),
      << "0", "x", "f", "f" >> \o EncodeToString(HexToAddress(KernelImplementationHex)),
      SubSeq(KernelImplementationHex, 1, 40) \o << "z", "z" >> }

NoSignOut == [sig |-> << >>, err |-> "none"]
NoVerifyOut == [ok |-> FALSE, err |-> "none"]
NoAuthOut == [auth |-> NilAuthorization, err |-> "none"]

InitSign ==
    /\ sgPc = "start"
    /\ userOpHash \in HashStrings
    /\ privateKey \in Keys
    /\ address \in AddressStrings
    /\ signature = << >>
    /\ signOut = NoSignOut
    /\ verifyOut = NoVerifyOut
    /\ chainID = U64(0)
    /\ delegateAddressHex = << >>
    /\ nonce = U64(0)
    /\ authOut = NoAuthOut
    /\ libCalls = << >>

\* the signer before a SignAuthorization call, or a SignUserOpHash call on
\* a well-formed digest
InitAuth ==
    /\ sgPc = "start"
    /\ userOpHash \in { << "0", "x" >> \o EncodeToString(DigestBytes(seed, 32)) :
                           seed \in 0 .. MaxDigestSeed }
    /\ privateKey \in Keys
    /\ address \in { << "0", "x" >> \o EncodeToString(AddressOf(k)) : k \in Keys }
    /\ signature = << >>
    /\ signOut = NoSignOut
    /\ verifyOut = NoVerifyOut
    /\ chainID = U64(0)
    /\ delegateAddressHex = << >>
    /\ nonce = U64(0)
    /\ authOut = NoAuthOut
    /\ libCalls = << >>

\* the signer is not used
SignIdle ==
    /\ sgPc = "start"
    /\ userOpHash = << >>
    /\ privateKey = 1
    /\ address = << >>
    /\ signature = << >>
    /\ signOut = NoSignOut
    /\ verifyOut = NoVerifyOut
    /\ chainID = U64(0)
    /\ delegateAddressHex = << >>
    /\ nonce = U64(0)
    /\ authOut = NoAuthOut
    /\ libCalls = << >>

\* the caller signs userOpHash
Sign ==
    /\ sgPc = "start"
    /\ LET res == SignUserOpHash(userOpHash, privateKey)
       IN /\ signOut' = [sig |-> res.sig, err |-> res.err]
          /\ libCalls' = res.lib
    /\ sgPc' = "signed"
    /\ UNCHANGED << userOpHash, privateKey, address, signature, verifyOut,
                    chainID, delegateAddressHex, nonce, authOut >>
    /\ UNCHANGED << pollVars, other >>

\* the caller verifies a signature string against the address
Verify(sigStr) ==
    /\ sgPc = "signed"
    /\ signature' = sigStr
    /\ LET res == VerifyUserOpSignature(userOpHash, sigStr, address)
       IN /\ verifyOut' = [ok |-> res.ok, err |-> res.err]
          /\ libCalls' = res.lib
    /\ sgPc' = "verified"
    /\ UNCHANGED << userOpHash, privateKey, address, signOut,
                    chainID, delegateAddressHex, nonce, authOut >>
    /\ UNCHANGED << pollVars, other >>

\* the caller signs an authorization tuple
Authorize(chain, addrHex, n) ==
    /\ sgPc = "start"
    /\ chainID' = chain
    /\ delegateAddressHex' = addrHex
    /\ nonce' = n
    /\ LET res == SignAuthorization(chain, addrHex, n, privateKey)
       IN /\ authOut' = [auth |-> res.auth, err |-> res.err]
          /\ libCalls' = res.lib
    /\ sgPc' = "authorized"
    /\ UNCHANGED << userOpHash, privateKey, address, signature, signOut, verifyOut >>
    /\ UNCHANGED << pollVars, other >>

----------------------------------------------------------------------------
(* GetUserOpReceipt: one receipt query *)

\* What the server's side of the HTTP exchange of one query can produce.  net: whether
\* httpClient.Do returned a response; status: its status code; body: what the
\* body holds ("unreadable": io.ReadAll fails; "notjson": not a JSON value
\* that decodes into a map; "error": a JSON object with a top-level "error"
\* key; "badreceipt": a JSON object without "error" that does not decode into
\* UserOpReceipt; "r1", "r2": a receipt).
Receipts == {"r1", "r2"}

Responses ==
    { [net |-> "fail", status |-> 0, body |-> "unreadable"],
      [net |-> "ok", status |-> 500, body |-> "error"],
      [net |-> "ok", status |-> StatusOK, body |-> "unreadable"],
      [net |-> "ok", status |-> StatusOK, body |-> "notjson"],
      [net |-> "ok", status |-> StatusOK, body |-> "badreceipt"],
      [net |-> "ok", status |-> StatusOK, body |-> "error"],
      [net |-> "ok", status |-> StatusOK, body |-> "r1"],
      [net |-> "ok", status |-> StatusOK, body |-> "r2"] }

\* line 332: httpClient.Do of a request made with
\* http.NewRequestWithContext(ctx, ...) (line 326) returns ctx's error once
\* ctx is done
CtxAborted == [net |-> "ctx", status |-> 0, body |-> "unreadable"]

AllResponses == Responses \cup {CtxAborted}

\* mutant: a query is not bound to ctx once it has a response to deliver
QueryResponses_Detached(e, startedDone) == AllResponses

\* What a query can return, given ctx.Err() at its return (e) and whether
\* ctx was done when it started: a request that starts under a done ctx is
\* refused; one in flight when ctx ends is aborted, unless its response
\* wins the race; under a live ctx the response decides.
QueryResponses(e, startedDone) ==
    IF startedDone THEN {CtxAborted}
    ELSE IF e # "none" THEN AllResponses
    ELSE Responses

\* mutant: a top-level "error" key is not looked for
HasErrorKey_Ignored(body) == FALSE

\* lines 351-358: the body, decoded into a map, has a top-level "error" key
HasErrorKey(body) == body = "error"

\* The (receipt, error) pair GetUserOpReceipt returns for a response.
GetUserOpReceipt(resp) ==
    IF resp.net # "ok" THEN [receipt |-> "nil", err |-> "failed to send request"]
    ELSE IF resp.status # StatusOK THEN [receipt |-> "nil", err |-> "unexpected status code"]
    ELSE IF resp.body = "unreadable" THEN [receipt |-> "nil", err |-> "failed to read response"]
    ELSE IF resp.body = "notjson" THEN [receipt |-> "nil", err |-> "failed to decode response"]
    ELSE IF HasErrorKey(resp.body) THEN [receipt |-> "nil", err |-> "receipt not found yet"]
    ELSE IF resp.body = "badreceipt" THEN [receipt |-> "nil", err |-> "failed to decode receipt"]
    ELSE [receipt |-> resp.body, err |-> "nil"]

QueryErrors == { GetUserOpReceipt(r).err : r \in Responses } \ {"nil"}

----------------------------------------------------------------------------
(* WaitForUserOpReceipt *)

\* mutant: the poll interval is 2 seconds whatever the caller passed
EffectivePollInterval_Always(p) == DefaultPollInterval

\* lines 369-371: a zero pollInterval becomes 2 seconds
EffectivePollInterval(p) == IF p = 0 THEN DefaultPollInterval ELSE p

\* lines 372-374: a zero timeout becomes 60 seconds
EffectiveTimeout(t) == IF t = 0 THEN DefaultTimeout ELSE t

\* context.WithTimeout(ctx, timeout): the error the new context starts with.
\* A done parent cancels the child at once; a duration <= 0 is a deadline
\* already passed.
InitialCtxErr(parentDone, t) ==
    IF parentDone THEN "canceled"
    ELSE IF t <= 0 THEN "deadline"
    ELSE "none"

\* time.NewTicker panics on a non-positive interval.
NewTickerPanics(p) == p <= 0

NoOutcome == [kind |-> "none", receipt |-> "nil", attempts |-> 0, cause |-> "none"]

\* return receipt, nil
ReceiptOutcome(r) == [kind |-> "receipt", receipt |-> r, attempts |-> 0, cause |-> "none"]

\* mutant: the count is printed without the -1
ReportedAttempts_Raw(n) == n

\* the number printed by the timed-out error: attemptNum-1
ReportedAttempts(n) == n - 1

\* mutant: the timed-out error wraps the error of the first attempt
TimeoutError_Wrapping(n, firstErr) ==
    [kind |-> "timed out", receipt |-> "nil", attempts |-> ReportedAttempts(n), cause |-> firstErr]

\* fmt.Errorf("timed out waiting for user operation receipt after %d attempts", attemptNum-1):
\* an error that carries the text and the count and wraps nothing
TimeoutError(n, firstErr) ==
    [kind |-> "timed out", receipt |-> "nil", attempts |-> ReportedAttempts(n), cause |-> "none"]

\* mutant: the tick branch returns the outer receipt
TickReceipt_Outer(inner, outer) == outer

\* the receipt returned by the tick branch: the inner receipt of line 398,
\* which shadows the outer one of line 384
TickReceipt(inner, outer) == inner

\* `if err == nil`
IsSuccess(r) == r.err = "nil"

\* mutant: the ticker is not stopped on return
DeferredTickerStop_Missing(active) == active

\* defer ticker.Stop(): the ticker's state after the call returns
DeferredTickerStop(active) == FALSE

\* defer cancel(): the deadline timer's state after the call returns
DeferredCancelTimer(armed) == FALSE

\* defer cancel(): timeoutCtx.Err() after the call returns
DeferredCancelErr(e) == IF e = "none" THEN "canceled" ELSE e

\* the deferred calls, run on every return
RunDeferred ==
    /\ tickerActive' = DeferredTickerStop(tickerActive)
    /\ timerArmed' = DeferredCancelTimer(timerArmed)
    /\ ctxErr' = DeferredCancelErr(ctxErr)

\* mutant: a parked loop does not react to Done; it is seen at the next tick
WakeOnDone_Ignored(p) == p

\* A goroutine parked in the select is woken by the first channel that
\* becomes ready, and runs that case whatever becomes ready afterwards.
WakeOnDone(p) == IF p = "parked" THEN "wokenDone" ELSE p
WakeOnTick(p) == IF p = "parked" THEN "wokenTick" ELSE p

\* mutant: a tick is handled while a query is still in flight
CanReceiveTick_Concurrent(p, pending) ==
    (p \in {"select", "query1", "queryN"} /\ pending) \/ p = "wokenTick"

\* the goroutine is at the select statement and can receive from ticker.C
CanReceiveTick(p, pending) == (p = "select" /\ pending) \/ p = "wokenTick"

\* the goroutine is at the select statement and can receive from timeoutCtx.Done()
CanReceiveDone(p, e) == (p = "select" /\ e # "none") \/ p = "wokenDone"

\* mutant: the ticker is not created before the first query
TickerAtEntry_Lazy == FALSE

\* the ticker is created on entry, before the first query
TickerAtEntry == TRUE

Ended == pc \in {"returned", "panicked"}

InitPoll ==
    /\ pollInterval \in PollIntervals
    /\ timeout \in Timeouts
    /\ pc = "idle"
    /\ receipt = "nil"
    /\ err = "nil"
    /\ attemptNum = 0
    /\ outcome = NoOutcome
    /\ parentCancelled = FALSE
    /\ ctxErr = "none"
    /\ timerArmed = FALSE
    /\ deadlineAt = 0
    /\ tickerActive = FALSE
    /\ nextTickAt = 0
    /\ tickPending = FALSE
    /\ now = 0
    /\ queriesStarted = 0
    /\ inFlight = 0
    /\ okAt = 0
    /\ okReceipt = "nil"
    /\ tickerCreated = FALSE
    /\ timerCreated = FALSE
    /\ cancelInCall = FALSE
    /\ cancelParked = FALSE
    /\ cancelQueries = 0
    /\ cancelTime = 0
    /\ queryCtxDone = FALSE
    /\ interrupted = FALSE

\* mutant: a context that is done on entry skips the first query
AfterSetup_CheckCtx(e) == IF e # "none" THEN "select" ELSE "query1"

\* lines 376-384: nothing looks at timeoutCtx between its creation and the
\* first GetUserOpReceipt call: the first query is made whatever its state
AfterSetup(e) == "query1"

\* lines 369-384: defaults, context.WithTimeout, time.NewTicker, and the
\* start of the immediate first query.  A non-positive pollInterval makes
\* NewTicker panic; the deferred cancel() still runs.
Enter ==
    /\ UNCHANGED << signVars, other >>
    /\ pc = "idle"
    /\ LET p == EffectivePollInterval(pollInterval)
           t == EffectiveTimeout(timeout)
           e == InitialCtxErr(parentCancelled, t)
       IN /\ pollInterval' = p
          /\ timeout' = t
          /\ deadlineAt' = now + t
          /\ timerCreated' = (e = "none")
          /\ IF NewTickerPanics(p)
             THEN /\ pc' = "panicked"
                  /\ ctxErr' = DeferredCancelErr(e)
                  /\ timerArmed' = DeferredCancelTimer(e = "none")
                  /\ UNCHANGED << tickerActive, nextTickAt, tickerCreated,
                                  queriesStarted, inFlight >>
             ELSE /\ pc' = AfterSetup(e)
                  /\ ctxErr' = e
                  /\ timerArmed' = (e = "none")
                  /\ tickerActive' = TickerAtEntry
                  /\ tickerCreated' = TickerAtEntry
                  /\ nextTickAt' = now + p
                  /\ LET started == IF AfterSetup(e) = "query1" THEN 1 ELSE 0
                     IN /\ queriesStarted' = queriesStarted + started
                        /\ inFlight' = inFlight + started
          /\ queryCtxDone' = (~NewTickerPanics(p) /\ e # "none")
    /\ UNCHANGED << receipt, err, attemptNum, outcome,
                    parentCancelled, tickPending, now, okAt, okReceipt,
                    cancelInCall, cancelParked, cancelQueries, cancelTime, interrupted >>

\* mutant: the deadline is set anew when the first query has failed
DeadlineAfterFirstQuery_Rearmed(d, n, t) == n + t

\* lines 376-391: context.WithTimeout is called once, before the first
\* query; the failure of the first query leaves the deadline where it is
DeadlineAfterFirstQuery(d, n, t) == d

\* lines 384-391: the first query returns
FirstQueryReturn(resp) ==
    /\ UNCHANGED << signVars, other >>
    /\ pc = "query1"
    /\ resp \in QueryResponses(ctxErr, queryCtxDone)
    /\ interrupted' = (interrupted \/ (resp = CtxAborted /\ ~queryCtxDone))
    /\ queryCtxDone' = FALSE
    /\ LET r == GetUserOpReceipt(resp)
       IN /\ receipt' = r.receipt
          /\ err' = r.err
          /\ inFlight' = inFlight - 1
          /\ IF IsSuccess(r)
             THEN /\ pc' = "returned"
                  /\ outcome' = ReceiptOutcome(r.receipt)
                  /\ okAt' = IF okAt = 0 THEN queriesStarted ELSE okAt
                  /\ okReceipt' = IF okAt = 0 THEN r.receipt ELSE okReceipt
                  /\ RunDeferred
                  /\ UNCHANGED attemptNum
             ELSE /\ pc' = "select"
                  /\ attemptNum' = 2
                  /\ UNCHANGED << outcome, okAt, okReceipt, tickerActive, timerArmed,
                                  ctxErr >>
    /\ deadlineAt' = DeadlineAfterFirstQuery(deadlineAt, now, timeout)
    /\ UNCHANGED << pollInterval, timeout,
                    parentCancelled, nextTickAt, tickPending, now,
                    queriesStarted, tickerCreated, timerCreated, cancelInCall, cancelParked,
                    cancelQueries, cancelTime >>

\* lines 398-404: a query started by a tick returns
TickQueryReturn(resp) ==
    /\ UNCHANGED << signVars, other >>
    /\ pc = "queryN"
    /\ resp \in QueryResponses(ctxErr, queryCtxDone)
    /\ interrupted' = (interrupted \/ (resp = CtxAborted /\ ~queryCtxDone))
    /\ queryCtxDone' = FALSE
    /\ LET r == GetUserOpReceipt(resp)
       IN /\ inFlight' = inFlight - 1
          /\ IF IsSuccess(r)
             THEN /\ pc' = "returned"
                  /\ outcome' = ReceiptOutcome(TickReceipt(r.receipt, receipt))
                  /\ okAt' = IF okAt = 0 THEN queriesStarted ELSE okAt
                  /\ okReceipt' = IF okAt = 0 THEN r.receipt ELSE okReceipt
                  /\ RunDeferred
                  /\ UNCHANGED attemptNum
             ELSE /\ pc' = "select"
                  /\ attemptNum' = attemptNum + 1
                  /\ UNCHANGED << outcome, okAt, okReceipt, tickerActive, timerArmed, ctxErr >>
    /\ UNCHANGED << pollInterval, timeout, receipt, err,
                    parentCancelled, deadlineAt, nextTickAt, tickPending, now,
                    queriesStarted, tickerCreated, timerCreated, cancelInCall, cancelParked,
                    cancelQueries, cancelTime >>

\* lines 393-395: the select takes case <-timeoutCtx.Done()
SelectDone ==
    /\ UNCHANGED << signVars, other >>
    /\ UNCHANGED << queryCtxDone, interrupted >>
    /\ CanReceiveDone(pc, ctxErr)
    /\ pc' = "returned"
    /\ outcome' = TimeoutError(attemptNum, err)
    /\ RunDeferred
    /\ UNCHANGED << pollInterval, timeout, receipt, err,
                    attemptNum, parentCancelled, deadlineAt, nextTickAt, tickPending,
                    now, queriesStarted, inFlight, okAt, okReceipt, tickerCreated,
                    timerCreated, cancelInCall, cancelParked, cancelQueries, cancelTime >>

\* lines 397-398: the select takes case <-ticker.C and starts the next query
SelectTick ==
    /\ UNCHANGED << signVars, other >>
    /\ CanReceiveTick(pc, tickPending)
    /\ queryCtxDone' = (ctxErr # "none")
    /\ UNCHANGED interrupted
    /\ pc' = "queryN"
    /\ tickPending' = IF pc = "wokenTick" THEN tickPending ELSE FALSE
    /\ queriesStarted' = queriesStarted + 1
    /\ inFlight' = inFlight + 1
    /\ UNCHANGED << pollInterval, timeout, receipt, err,
                    attemptNum, outcome, parentCancelled, ctxErr, timerArmed,
                    deadlineAt, tickerActive, nextTickAt, now, okAt, okReceipt,
                    tickerCreated, timerCreated, cancelInCall, cancelParked, cancelQueries,
                    cancelTime >>

\* line 393: no case of the select is ready, the goroutine parks
Park ==
    /\ UNCHANGED << signVars, other >>
    /\ UNCHANGED << queryCtxDone, interrupted >>
    /\ pc = "select"
    /\ ctxErr = "none"
    /\ ~tickPending
    /\ pc' = "parked"
    /\ UNCHANGED << pollInterval, timeout, receipt, err,
                    attemptNum, outcome, parentCancelled, ctxErr, timerArmed,
                    deadlineAt, tickerActive, nextTickAt, tickPending, now,
                    queriesStarted, inFlight, okAt, okReceipt, tickerCreated,
                    timerCreated, cancelInCall, cancelParked, cancelQueries, cancelTime >>

----------------------------------------------------------------------------
(* The environment: the timers, the caller, the clock *)

TimerDue == timerArmed /\ now >= deadlineAt
TickDue == tickerActive /\ now >= nextTickAt

\* the deadline timer of timeoutCtx fires: the context ends with DeadlineExceeded
DeadlineFire ==
    /\ UNCHANGED << signVars, other >>
    /\ UNCHANGED << queryCtxDone, interrupted >>
    /\ TimerDue
    /\ ctxErr' = "deadline"
    /\ timerArmed' = FALSE
    /\ pc' = WakeOnDone(pc)
    /\ UNCHANGED << pollInterval, timeout, receipt, err,
                    attemptNum, outcome, parentCancelled, deadlineAt, tickerActive,
                    nextTickAt, tickPending, now, queriesStarted, inFlight, okAt,
                    okReceipt, tickerCreated, timerCreated, cancelInCall, cancelParked,
                    cancelQueries, cancelTime >>

\* the ticker fires: the tick goes to the parked receiver, or into the
\* one-slot buffer of ticker.C (a tick that finds the buffer full is dropped)
TickFire ==
    /\ UNCHANGED << signVars, other >>
    /\ UNCHANGED << queryCtxDone, interrupted >>
    /\ TickDue
    /\ nextTickAt' = nextTickAt + pollInterval
    /\ pc' = WakeOnTick(pc)
    /\ tickPending' = IF pc = "parked" THEN tickPending ELSE TRUE
    /\ UNCHANGED << pollInterval, timeout, receipt, err,
                    attemptNum, outcome, parentCancelled, ctxErr, timerArmed,
                    deadlineAt, tickerActive, now, queriesStarted, inFlight, okAt,
                    okReceipt, tickerCreated, timerCreated, cancelInCall, cancelParked,
                    cancelQueries, cancelTime >>

\* the caller cancels its ctx: timeoutCtx, its child, ends with Canceled
\* (unless it has ended already) and its timer is stopped
Cancel ==
    /\ UNCHANGED << signVars, other >>
    /\ UNCHANGED << queryCtxDone, interrupted >>
    /\ ~parentCancelled
    /\ ~Ended
    /\ parentCancelled' = TRUE
    /\ IF pc # "idle" /\ ctxErr = "none"
       THEN /\ ctxErr' = "canceled"
            /\ timerArmed' = FALSE
            /\ pc' = WakeOnDone(pc)
            /\ cancelInCall' = TRUE
            /\ cancelParked' = (pc = "parked")
            /\ cancelQueries' = IF pc = "parked" THEN queriesStarted ELSE cancelQueries
            /\ cancelTime' = IF pc = "parked" THEN now ELSE cancelTime
       ELSE UNCHANGED << ctxErr, timerArmed, pc, cancelInCall, cancelParked,
                         cancelQueries, cancelTime >>
    /\ UNCHANGED << pollInterval, timeout, receipt, err,
                    attemptNum, outcome, deadlineAt, tickerActive, nextTickAt,
                    tickPending, now, queriesStarted, inFlight, okAt, okReceipt,
                    tickerCreated, timerCreated >>

\* the clock of the model stops MaxOverrun seconds after the deadline
ClockStop == (IF deadlineAt > 0 THEN deadlineAt ELSE 0) + MaxOverrun

\* one second passes, while a query is in flight or the loop is parked; a
\* timer that is due fires before the clock moves on
Advance ==
    /\ UNCHANGED << signVars, other >>
    /\ UNCHANGED << queryCtxDone, interrupted >>
    /\ pc \in {"query1", "queryN", "parked"}
    /\ now < ClockStop
    /\ ~TimerDue
    /\ ~TickDue
    /\ now' = now + 1
    /\ UNCHANGED << pollInterval, timeout, pc, receipt,
                    err, attemptNum, outcome, parentCancelled, ctxErr, timerArmed,
                    deadlineAt, tickerActive, nextTickAt, tickPending,
                    queriesStarted, inFlight, okAt, okReceipt, tickerCreated,
                    timerCreated, cancelInCall, cancelParked, cancelQueries, cancelTime >>

NextPoll ==
    \/ Enter
    \/ \E resp \in AllResponses : FirstQueryReturn(resp)
    \/ \E resp \in AllResponses : TickQueryReturn(resp)
    \/ SelectDone
    \/ SelectTick
    \/ Park
    \/ DeadlineFire
    \/ TickFire
    \/ Cancel
    \/ Advance

\* the parameters and locals of the call that takes the steps
Local ==
    [pollInterval |-> pollInterval,
     timeout |-> timeout,
     pc |-> pc,
     receipt |-> receipt,
     err |-> err,
     attemptNum |-> attemptNum,
     outcome |-> outcome,
     parentCancelled |-> parentCancelled,
     ctxErr |-> ctxErr,
     timerArmed |-> timerArmed,
     deadlineAt |-> deadlineAt,
     tickerActive |-> tickerActive,
     nextTickAt |-> nextTickAt,
     tickPending |-> tickPending,
     queriesStarted |-> queriesStarted,
     inFlight |-> inFlight,
     okAt |-> okAt,
     okReceipt |-> okReceipt,
     tickerCreated |-> tickerCreated,
     timerCreated |-> timerCreated,
     cancelInCall |-> cancelInCall,
     cancelParked |-> cancelParked,
     cancelQueries |-> cancelQueries,
     cancelTime |-> cancelTime,
     queryCtxDone |-> queryCtxDone,
     interrupted |-> interrupted]

\* the parameters and locals of a call that has not started
FreshCall(p, t) ==
    [pollInterval |-> p,
     timeout |-> t,
     pc |-> "idle",
     receipt |-> "nil",
     err |-> "nil",
     attemptNum |-> 0,
     outcome |-> NoOutcome,
     parentCancelled |-> FALSE,
     ctxErr |-> "none",
     timerArmed |-> FALSE,
     deadlineAt |-> 0,
     tickerActive |-> FALSE,
     nextTickAt |-> 0,
     tickPending |-> FALSE,
     queriesStarted |-> 0,
     inFlight |-> 0,
     okAt |-> 0,
     okReceipt |-> "nil",
     tickerCreated |-> FALSE,
     timerCreated |-> FALSE,
     cancelInCall |-> FALSE,
     cancelParked |-> FALSE,
     cancelQueries |-> 0,
     cancelTime |-> 0,
     queryCtxDone |-> FALSE,
     interrupted |-> FALSE]

\* no second call
NoCall == [id |-> 0, st |-> FreshCall(0, 0)]

\* a call of WaitForUserOpReceipt; the signer is not used
Init == InitPoll /\ SignIdle /\ other = NoCall

Spec == Init /\ [][NextPoll]_vars

\* Every query returns, the runtime runs a runnable goroutine, timers that
\* are due fire and the clock moves on.  Go's select chooses uniformly at
\* random among the ready cases, so a case that is ready again and again is
\* eventually taken: strong fairness for the two cases.
FairSpec ==
    /\ Spec
    /\ WF_vars(Enter)
    /\ WF_vars(\E resp \in AllResponses : FirstQueryReturn(resp))
    /\ WF_vars(\E resp \in AllResponses : TickQueryReturn(resp))
    /\ SF_vars(SelectDone)
    /\ SF_vars(SelectTick)
    /\ WF_vars(Park)
    /\ WF_vars(DeadlineFire)
    /\ WF_vars(TickFire)
    /\ WF_vars(Advance)


----------------------------------------------------------------------------
(* Two WaitForUserOpReceipt calls on the same client.  Every variable of a  *)
(* call is a parameter or a local of the function (lines 368-391) and the   *)
(* fields of the client are only read (lines 194-198, 320, 332), so a call  *)
(* has its own copy of each of them; the clock is the one thing the calls   *)
(* share.  The poller's variables hold the call that takes the steps, other *)
(* holds the call that does not, and a switch of goroutine exchanges them.  *)

\* the id of the call that takes the steps
Self == 3 - other.id

\* mutant: the attempt counter is a field of the client, one for all calls
LoadAttemptNum_Shared(mine, saved) == mine

\* line 391: attemptNum := 2 declares a local of the call, so the
\* goroutine that is switched in finds its own counter
LoadAttemptNum(mine, saved) == saved

\* the scheduler switches to the goroutine of the other call
Switch ==
    /\ other.id # 0
    /\ other' = [id |-> Self, st |-> Local]
    /\ pollInterval' = other.st.pollInterval
    /\ timeout' = other.st.timeout
    /\ pc' = other.st.pc
    /\ receipt' = other.st.receipt
    /\ err' = other.st.err
    /\ attemptNum' = LoadAttemptNum(attemptNum, other.st.attemptNum)
    /\ outcome' = other.st.outcome
    /\ parentCancelled' = other.st.parentCancelled
    /\ ctxErr' = other.st.ctxErr
    /\ timerArmed' = other.st.timerArmed
    /\ deadlineAt' = other.st.deadlineAt
    /\ tickerActive' = other.st.tickerActive
    /\ nextTickAt' = other.st.nextTickAt
    /\ tickPending' = other.st.tickPending
    /\ queriesStarted' = other.st.queriesStarted
    /\ inFlight' = other.st.inFlight
    /\ okAt' = other.st.okAt
    /\ okReceipt' = other.st.okReceipt
    /\ tickerCreated' = other.st.tickerCreated
    /\ timerCreated' = other.st.timerCreated
    /\ cancelInCall' = other.st.cancelInCall
    /\ cancelParked' = other.st.cancelParked
    /\ cancelQueries' = other.st.cancelQueries
    /\ cancelTime' = other.st.cancelTime
    /\ queryCtxDone' = other.st.queryCtxDone
    /\ interrupted' = other.st.interrupted
    /\ UNCHANGED now
    /\ UNCHANGED signVars

\* the other call is waiting, has ended or has not started, and none of its
\* timers is due
OtherQuiescent ==
    /\ other.st.pc \in {"idle", "query1", "queryN", "parked", "returned", "panicked"}
    /\ ~(other.st.timerArmed /\ now >= other.st.deadlineAt)
    /\ ~(other.st.tickerActive /\ now >= other.st.nextTickAt)

\* one second passes for both calls
PairAdvance == Advance /\ OtherQuiescent

\* the responses of the server in the runs of two calls
PairResponses ==
    { [net |-> "ok", status |-> StatusOK, body |-> "error"],
      [net |-> "ok", status |-> StatusOK, body |-> "r1"],
      CtxAborted }

\* the timeouts the two callers pass
PairTimeouts == 1 .. MaxPairTimeout

PairInit ==
    /\ InitPoll
    /\ pollInterval = PairPollInterval
    /\ timeout \in PairTimeouts
    /\ SignIdle
    /\ \E t \in PairTimeouts : other = [id |-> 2, st |-> FreshCall(PairPollInterval, t)]

NextPair ==
    \/ Enter
    \/ \E resp \in PairResponses : FirstQueryReturn(resp)
    \/ \E resp \in PairResponses : TickQueryReturn(resp)
    \/ SelectDone
    \/ SelectTick
    \/ Park
    \/ DeadlineFire
    \/ TickFire
    \/ PairAdvance
    \/ Switch

PairSpec == PairInit /\ [][NextPair]_vars

----------------------------------------------------------------------------
\* the poller is not used
PollIdle == InitPoll /\ pollInterval = 0 /\ timeout = 0 /\ other = NoCall

NextSign ==
    \/ Sign
    \/ \E sigStr \in SignatureStrings(signOut.sig) : Verify(sigStr)

\* a SignUserOpHash call and a VerifyUserOpSignature call; the poller is not used
SignInit == PollIdle /\ InitSign

SignSpec == SignInit /\ [][NextSign]_vars

NextAuth ==
    \/ Sign
    \/ \E sigStr \in SignatureStrings(signOut.sig) : Verify(sigStr)
    \/ \E chain \in ChainIDs, addrHex \in DelegateAddresses, n \in Nonces :
           Authorize(chain, addrHex, n)

\* a SignAuthorization call, or a SignUserOpHash call and a
\* VerifyUserOpSignature call on a well-formed digest; the poller is not used
AuthInit == PollIdle /\ InitAuth

AuthSpec == AuthInit /\ [][NextAuth]_vars

----------------------------------------------------------------------------
(* Claims about the signer *)

\* C1: for every 32-byte digest and every key pair (priv, addr),
\* SignUserOpHash succeeds and VerifyUserOpSignature of its result against
\* addr returns true with no error.
C1_SignVerifyRoundTrip ==
    Len(FromHex(userOpHash)) = 32 =>
        /\ sgPc \in {"signed", "verified"} => signOut.err = "nil"
        /\ (/\ sgPc = "verified"
            /\ signature = signOut.sig
            /\ address \in HexForms(AddressOf(privateKey)))
               => verifyOut = [ok |-> TRUE, err |-> "nil"]

\* a round trip with the wire recovery byte 28 (hex 1c) and the address
\* written in upper case
C1_Witness ==
    /\ sgPc = "verified" /\ verifyOut.ok
    /\ address = << "0", "X" >> \o EncodeUpper(AddressOf(privateKey))
    /\ Len(signature) = 132
    /\ SubSeq(signature, 131, 132) = << "1", "c" >>

\* C11: SignUserOpHash fails with the invalid-hash-length error, and makes
\* no call to the curve library, for every input that decodes to a digest
\* whose length is not 32 bytes.
C11_BadDigestLengthRefused ==
    (sgPc = "signed" /\ Len(FromHex(userOpHash)) # 32) =>
        /\ signOut = [sig |-> << >>, err |-> "invalid hash length"]
        /\ libCalls = << >>

\* a digest of 33 bytes, refused
C11_Witness ==
    /\ sgPc = "signed" /\ Len(FromHex(userOpHash)) = 33
    /\ signOut.err = "invalid hash length"

\* C12 as stated: VerifyUserOpSignature fails with the
\* invalid-signature-length error, and attempts no key recovery, for every
\* signature whose decoded length is not 65 bytes.
C12_BadSignatureLengthRefused ==
    (sgPc = "verified" /\ Len(FromHex(signature)) # 65) =>
        /\ verifyOut = [ok |-> FALSE, err |-> "invalid signature length"]
        /\ libCalls = << >>

\* C12 amended: for every signature whose decoded length is not 65 bytes,
\* VerifyUserOpSignature attempts no key recovery and fails: with the
\* invalid-signature-length error when the digest decodes to 32 bytes, with
\* the invalid-hash-length error when it does not.
C12_BadSignatureLengthAfterDigest ==
    (sgPc = "verified" /\ Len(FromHex(signature)) # 65) =>
        /\ ~verifyOut.ok
        /\ libCalls = << >>
        /\ verifyOut.err = IF Len(FromHex(userOpHash)) = 32
                           THEN "invalid signature length"
                           ELSE "invalid hash length"

\* a signature one byte short for a digest of 32 bytes
C12_Witness ==
    /\ sgPc = "verified" /\ Len(FromHex(userOpHash)) = 32
    /\ Len(FromHex(signature)) = 64
    /\ verifyOut.err = "invalid signature length"

\* C13: a signature returned by SignUserOpHash is 65 bytes, r then s then
\* v, with r and s the bytes crypto.Sign produced and v that library's
\* recovery id (0 or 1) plus 27.
C13_WireSignatureLayout ==
    (sgPc = "signed" /\ signOut.err = "nil") =>
        LET b == FromHex(signOut.sig)
            lib == libCalls[1].data
        IN /\ Len(libCalls) = 1 /\ libCalls[1].fn = "Sign"
           /\ Len(signOut.sig) = 2 + 2 * 65
           /\ Len(b) = 65
           /\ SubSeq(b, 1, 32) = SubSeq(lib, 1, 32)
           /\ SubSeq(b, 33, 64) = SubSeq(lib, 33, 64)
           /\ lib[65] \in {0, 1}
           /\ b[65] = lib[65] + 27

\* a signature whose library recovery id is 1, returned with v = 28
C13_Witness ==
    /\ sgPc = "signed" /\ signOut.err = "nil"
    /\ libCalls[1].data[65] = 1
    /\ SubSeq(signOut.sig, 131, 132) = << "1", "c" >>

\* C14: in a SignedAuthorization returned by SignAuthorization, V is 27 or
\* 28, YParity is 0 or 1, and YParity = V - 27.
C14_LegacyVAndParity ==
    (sgPc = "authorized" /\ authOut.err = "nil") =>
        /\ authOut.auth.YParity \in {0, 1}
        /\ \/ authOut.auth.V = << "2", "7" >> /\ authOut.auth.YParity = 0
           \/ authOut.auth.V = << "2", "8" >> /\ authOut.auth.YParity = 1

\* C15: the bytes SignAuthorization hashes are 0x05, then the header of a
\* list, then chainID as a minimal big-endian integer (0 as 0x80, a value
\* below 0x80 as itself), then 0x94 and the 20 bytes of the address, then
\* nonce encoded like chainID; for chainID 1, the zero address and nonce 0
\* they are 05 d7 01 94 00 (20 times) 80.
C15_AuthorizationPreimage ==
    sgPc = "authorized" =>
        LET msg == libCalls[1].data
            addr == HexToAddress(delegateAddressHex)
            pieceLen(first) == IF first < 128 THEN 1 ELSE 1 + (first - 128)
            \* p is the canonical encoding of a byte string, and that byte
            \* string, padded on the left to 8 bytes, is the integer u
            encodes(p, u) ==
                LET str == IF Len(p) = 1 /\ p[1] < 128 THEN p ELSE Tail(p)
                IN /\ Len(p) >= 1 /\ Len(str) <= 8
                   /\ Len(p) > 1 => p[1] = 128 + Len(str)
                   /\ Len(p) = 2 => p[2] >= 128
                   /\ str # << >> => str[1] # 0
                   /\ [ i \in 1 .. 8 |->
                          IF i > 8 - Len(str) THEN str[i - (8 - Len(str))] ELSE 0 ] = u
            cLen == pieceLen(msg[3])
            chainPiece == SubSeq(msg, 3, 2 + cLen)
            addrPiece == SubSeq(msg, 3 + cLen, 23 + cLen)
            noncePiece == SubSeq(msg, 24 + cLen, Len(msg))
        IN /\ libCalls[1].fn = "Keccak256Hash"
           /\ msg[1] = 5
           /\ msg[2] = 192 + (Len(msg) - 2)
           /\ encodes(chainPiece, chainID)
           /\ addrPiece = << 148 >> \o addr
           /\ encodes(noncePiece, nonce)
           /\ (chainID = U64(1) /\ nonce = U64(0) /\ delegateAddressHex = ZeroAddressHex) =>
                  msg = << 5, 215, 1, 148 >> \o [ i \in 1 .. 20 |-> 0 ] \o << 128 >>

\* chain id 1313161554 (four bytes, five encoded), a non-zero address,
\* nonce 128 (one byte, two encoded)
C15_Witness ==
    /\ sgPc = "authorized" /\ chainID = U64(1313161554) /\ nonce = U64(128)
    /\ delegateAddressHex = KernelImplementationHex
    /\ Len(libCalls[1].data) = 2 + 5 + 21 + 2

\* C16: SignUserOpHash passes to crypto.Sign the hash of the personal-message
\* prefix followed by the 32-byte digest, and VerifyUserOpSignature passes
\* that same hash to crypto.SigToPub; SignAuthorization passes to crypto.Sign
\* the hash of 0x05 followed by the RLP tuple, with no prefix.
C16_SigningPathsDiffer ==
    LET personal(d) == Keccak256(PrefixBytes \o << 51, 50 >> \o d)
    IN /\ (sgPc = "signed" /\ signOut.err = "nil") =>
              /\ Len(libCalls) = 1 /\ libCalls[1].fn = "Sign"
              /\ libCalls[1].hash = personal(FromHex(userOpHash))
       /\ (sgPc = "verified" /\ libCalls # << >>) =>
              /\ Len(libCalls) = 1 /\ libCalls[1].fn = "SigToPub"
              /\ libCalls[1].hash = personal(FromHex(userOpHash))
       /\ sgPc = "authorized" =>
              /\ Len(libCalls) = 2 /\ libCalls[2].fn = "Sign"
              /\ libCalls[1].data[1] = 5
              /\ libCalls[2].hash = Keccak256(libCalls[1].data)
              /\ libCalls[2].hash #
                     Keccak256(PrefixBytes \o DecimalBytes(Len(libCalls[1].data))
                               \o libCalls[1].data)

\* an authorization signed, its hash taken over 0x05 and the tuple
C16_Witness ==
    /\ sgPc = "authorized" /\ authOut.err = "nil" /\ chainID = U64(256)
    /\ libCalls[2].hash = Keccak256(<< 5 >> \o Tail(libCalls[1].data))

\* C17: the strings the signing operations return are 0x-prefixed lower-case
\* hex: the result of SignUserOpHash and the Address, R and S fields of the
\* SignedAuthorization.
C17_LowerHexAtBoundary ==
    LET lowerHex(str) ==
            /\ Len(str) >= 2 /\ str[1] = "0" /\ str[2] = "x"
            /\ \A i \in 3 .. Len(str) : \E j \in 1 .. 16 : LowerDigits[j] = str[i]
    IN /\ (sgPc = "signed" /\ signOut.err = "nil") => lowerHex(signOut.sig)
       /\ (sgPc = "authorized" /\ authOut.err = "nil") =>
              /\ lowerHex(authOut.auth.Address)
              /\ lowerHex(authOut.auth.R)
              /\ lowerHex(authOut.auth.S)

\* C18: VerifyUserOpSignature returns the same result for the address
\* written with its hex digits in lower case, in upper case and in mixed
\* case.
C18_AddressCaseInsensitive ==
    sgPc = "verified" =>
        LET first == IF Has0xPrefix(address) THEN 3 ELSE 1
            recase(upper) ==
                [ i \in 1 .. Len(address) |->
                    IF i < first \/ HexVal(address[i]) < 0 THEN address[i]
                    ELSE IF upper[i] THEN UpperDigits[HexVal(address[i]) + 1]
                    ELSE LowerDigits[HexVal(address[i]) + 1] ]
            variants == { recase([ i \in 1 .. Len(address) |-> TRUE ]),
                          recase([ i \in 1 .. Len(address) |-> FALSE ]),
                          recase([ i \in 1 .. Len(address) |-> i % 2 = 0 ]) }
        IN \A a \in variants :
               LET res == VerifyUserOpSignature(userOpHash, signature, a)
               IN verifyOut = [ok |-> res.ok, err |-> res.err]

\* the signer's address in upper case, accepted
C18_Witness ==
    /\ sgPc = "verified" /\ verifyOut.ok
    /\ address = << "0", "x" >> \o EncodeUpper(AddressOf(privateKey))
    /\ address # << "0", "x" >> \o EncodeToString(AddressOf(privateKey))

\* C22 as stated: in a returned SignedAuthorization R and S decode to the
\* signature integers r and s and, after the 0x prefix, carry no leading
\* zero hex digit.
C22_MinimalHexDigits ==
    (sgPc = "authorized" /\ authOut.err = "nil") =>
        LET sig == libCalls[2].data
            pad32(b) == [ i \in 1 .. 32 |->
                            IF i > 32 - Len(b) THEN b[i - (32 - Len(b))] ELSE 0 ]
            minimal(str, int) ==
                /\ Len(str) >= 3 /\ str[1] = "0" /\ str[2] = "x"
                /\ pad32(FromHex(str)) = int
                /\ str[3] # "0"
        IN /\ minimal(authOut.auth.R, SubSeq(sig, 1, 32))
           /\ minimal(authOut.auth.S, SubSeq(sig, 33, 64))

\* C22 amended: R and S decode to the signature integers r and s and carry
\* no leading zero byte: after the 0x prefix they have two hex digits for
\* each byte of the integer, so an integer whose first byte is below 0x10
\* keeps one leading zero digit.
C22_MinimalHexBytes ==
    (sgPc = "authorized" /\ authOut.err = "nil") =>
        LET sig == libCalls[2].data
            pad32(b) == [ i \in 1 .. 32 |->
                            IF i > 32 - Len(b) THEN b[i - (32 - Len(b))] ELSE 0 ]
            minimal(str, int) ==
                LET b == FromHex(str)
                IN /\ Len(str) >= 4 /\ str[1] = "0" /\ str[2] = "x"
                   /\ Len(str) = 2 + 2 * Len(b)
                   /\ Len(b) <= 32
                   /\ pad32(b) = int
                   /\ b[1] # 0
                   /\ str[3] = "0" <=> b[1] < 16
        IN /\ minimal(authOut.auth.R, SubSeq(sig, 1, 32))
           /\ minimal(authOut.auth.S, SubSeq(sig, 33, 64))

\* an r below 0x10, rendered with two digits, next to an s of 0x10 or more
C22_Witness ==
    /\ sgPc = "authorized" /\ authOut.err = "nil"
    /\ Len(authOut.auth.R) = 4 /\ authOut.auth.R[3] = "0"
    /\ libCalls[2].data[32] < 16
    /\ authOut.auth.S[3] # "0"

\* C24: VerifyUserOpSignature gives the same value and error for a 65-byte
\* signature whose last byte is v in {0,1} and for the same signature with
\* last byte v + 27, whatever the digest and the address; the recovery
\* primitive receives the 0/1 form in both cases, and the signature string
\* of the caller still holds the byte it was given.
C24_RecoveryByteForms ==
    sgPc = "verified" =>
        LET b == FromHex(signature)
            hex(x) == << "0", "x" >> \o EncodeToString(x)
            same(twin) ==
                LET res == VerifyUserOpSignature(userOpHash, hex(twin), address)
                IN /\ verifyOut = [ok |-> res.ok, err |-> res.err]
                   /\ libCalls = res.lib
        IN Len(b) = 65 =>
              /\ b[65] \in {0, 1} => same([b EXCEPT ![65] = b[65] + 27])
              /\ b[65] \in {27, 28} => same([b EXCEPT ![65] = b[65] - 27])
              /\ (b[65] \in {0, 1, 27, 28} /\ libCalls # << >>) =>
                     /\ libCalls[1].data[65] = b[65] % 27
                     /\ SubSeq(libCalls[1].data, 1, 64) = SubSeq(b, 1, 64)

\* a signature given with v in {0,1} verifies
C24_Witness ==
    /\ sgPc = "verified"
    /\ Len(FromHex(signature)) = 65
    /\ FromHex(signature)[65] \in {0, 1}
    /\ verifyOut = [ok |-> TRUE, err |-> "nil"]

\* C25: VerifyUserOpSignature returns an error only for a wrong digest
\* length, a wrong signature length or a failed recovery, and every error
\* comes with the value false; when the recovery succeeds and the recovered
\* address differs from the expected one it returns false and no error.
C25_MismatchIsNotAnError ==
    sgPc = "verified" =>
        LET hashLen == Len(FromHex(userOpHash))
            sigLen == Len(FromHex(signature))
            recovered == /\ libCalls # << >>
                         /\ SigToPub(libCalls[1].hash, libCalls[1].data).err = "nil"
        IN /\ verifyOut.err # "nil" => ~verifyOut.ok
           /\ verifyOut.err = "invalid hash length" <=> hashLen # 32
           /\ verifyOut.err = "invalid signature length" <=>
                  (hashLen = 32 /\ sigLen # 65)
           /\ verifyOut.err = "failed to recover public key" <=>
                  (hashLen = 32 /\ sigLen = 65 /\ ~recovered)
           /\ verifyOut.err = "nil" <=> recovered
           /\ recovered =>
                  verifyOut.ok =
                      (PubkeyToAddress(SigToPub(libCalls[1].hash, libCalls[1].data).pub)
                           = HexToAddress(address))

\* the recovery succeeds with an address other than the expected one
C25_Witness ==
    /\ sgPc = "verified"
    /\ libCalls # << >>
    /\ SigToPub(libCalls[1].hash, libCalls[1].data).err = "nil"
    /\ PubkeyToAddress(SigToPub(libCalls[1].hash, libCalls[1].data).pub)
           # HexToAddress(address)
    /\ verifyOut = [ok |-> FALSE, err |-> "nil"]

\* the recovery fails
C25_RecoveryFails ==
    /\ sgPc = "verified"
    /\ verifyOut = [ok |-> FALSE, err |-> "failed to recover public key"]

\* C28: the SignedAuthorization carries the tuple that was signed: ChainID
\* and Nonce are the inputs, and the Address field is the hex rendering (40
\* digits, with or without 0x) of the 20 bytes that were RLP-encoded into
\* the preimage, for every delegateAddress string the function accepts.
C28_TupleDenotesSigned ==
    (sgPc = "authorized" /\ authOut.err = "nil") =>
        LET msg == libCalls[1].data
            cLen == IF msg[3] < 128 THEN 1 ELSE 1 + (msg[3] - 128)
            signedAddr == SubSeq(msg, 4 + cLen, 23 + cLen)
            str == authOut.auth.Address
            digits == IF Has0xPrefix(str) THEN SubSeq(str, 3, Len(str)) ELSE str
        IN /\ authOut.auth.ChainID = chainID
           /\ authOut.auth.Nonce = nonce
           /\ Len(digits) = 40
           /\ \A i \in 1 .. Len(digits) : HexVal(digits[i]) >= 0
           /\ Hex2Bytes(digits) = signedAddr

\* what the code does keep: ChainID and Nonce are the inputs, the Address
\* field is the input string, and the signed address is what
\* common.HexToAddress makes of that string
C28_TupleEchoesInputs ==
    (sgPc = "authorized" /\ authOut.err = "nil") =>
        LET msg == libCalls[1].data
            cLen == IF msg[3] < 128 THEN 1 ELSE 1 + (msg[3] - 128)
        IN /\ authOut.auth.ChainID = chainID
           /\ authOut.auth.Nonce = nonce
           /\ authOut.auth.Address = delegateAddressHex
           /\ SubSeq(msg, 4 + cLen, 23 + cLen) = HexToAddress(authOut.auth.Address)

\* a 21-byte string is accepted: its last 20 bytes are signed, the string
\* comes back whole
C28_Witness ==
    /\ sgPc = "authorized" /\ authOut.err = "nil"
    /\ Len(authOut.auth.Address) = 44
    /\ SubSeq(authOut.auth.Address, 1, 4) = << "0", "x", "f", "f" >>
    /\ chainID = U64(1)
    /\ SubSeq(libCalls[1].data, 5, 24) = HexToAddress(KernelImplementationHex)

\* a string with a character that is no hex digit is accepted: the 19 bytes
\* before it are signed behind a zero byte
C28_TruncatedAddressSigned ==
    /\ sgPc = "authorized" /\ authOut.err = "nil"
    /\ authOut.auth.Address[42] = "z"
    /\ chainID = U64(1)
    /\ libCalls[1].data[5] = 0
    /\ SubSeq(libCalls[1].data, 6, 24) = SubSeq(HexToAddress(KernelImplementationHex), 1, 19)

\* C29: for every chainId and nonce of 64 bits the RLP payload of the
\* authorization tuple has 23 to 39 bytes, the list header is the single
\* byte 0xc0 + payload length, the hashed preimage has 25 to 41 bytes, and
\* each integer item has 1 to 9 bytes and no leading zero byte.
C29_PreimageSizes ==
    sgPc = "authorized" =>
        LET msg == libCalls[1].data
            payloadLen == Len(msg) - 2
            pieceLen(first) == IF first < 128 THEN 1 ELSE 1 + (first - 128)
            cLen == pieceLen(msg[3])
            nLen == pieceLen(msg[24 + cLen])
            \* the integer item of len bytes that starts at index at
            item(at, len) ==
                /\ len \in 1 .. 9
                /\ len > 1 => msg[at + 1] # 0
                /\ len = 1 => msg[at] # 0
        IN /\ payloadLen \in 23 .. 39
           /\ msg[2] = 192 + payloadLen
           /\ msg[2] < 248
           /\ Len(msg) \in 25 .. 41
           /\ payloadLen = cLen + 21 + nLen
           /\ item(3, cLen)
           /\ item(24 + cLen, nLen)

\* the longest preimage: chainId and nonce are both 2^64 - 1
C29_Witness ==
    /\ sgPc = "authorized"
    /\ chainID = MaxUint64 /\ nonce = MaxUint64
    /\ Len(libCalls[1].data) = 41
    /\ libCalls[1].data[2] = 231

\* the shortest preimage: chainId and nonce are both 0
C29_ShortestPreimage ==
    /\ sgPc = "authorized"
    /\ chainID = U64(0) /\ nonce = U64(0)
    /\ Len(libCalls[1].data) = 25
    /\ libCalls[1].data[2] = 215

----------------------------------------------------------------------------
(* Claims about WaitForUserOpReceipt *)

Returned == pc = "returned"
TimedOut == Returned /\ outcome.kind = "timed out"
Succeeded == Returned /\ outcome.kind = "receipt"

\* C2: a timed-out outcome reports exactly the number of GetUserOpReceipt
\* invocations made during the call.
C2_TimedOutCountsQueries == TimedOut => outcome.attempts = queriesStarted

\* several failed queries, then the deadline
C2_Witness ==
    TimedOut /\ ctxErr = "deadline" /\ queriesStarted = 3 /\ ~parentCancelled

\* C3: a poll the caller cancelled before the deadline returns an outcome
\* that is not the timed-out outcome.
C3_CancelledIsNotTimedOut ==
    (Returned /\ cancelInCall /\ now < deadlineAt /\ outcome.kind # "receipt")
        => outcome.kind # "timed out"

\* C4: once the caller has cancelled while the loop was parked in the select,
\* the call returns without another query and without the clock moving.
C4_CancelWhileWaitingReturns ==
    cancelParked =>
        /\ pc \in {"wokenDone", "returned"}
        /\ queriesStarted = cancelQueries
        /\ inFlight = 0
        /\ now = cancelTime
        /\ pc = "returned" => outcome.kind = "timed out"

\* cancelled while parked, well before the deadline, with a tick that came
\* due at that very instant
C4_Witness ==
    /\ cancelParked /\ Returned /\ tickPending
    /\ cancelTime < deadlineAt /\ cancelQueries >= 2

\* C5: the first successful query ends the poll; the call returns that
\* query's receipt and starts no query after it.
C5_FirstSuccessEndsPoll ==
    /\ okAt # 0 =>
        /\ Returned
        /\ outcome = ReceiptOutcome(okReceipt)
        /\ okReceipt \in Receipts
        /\ queriesStarted = okAt
        /\ inFlight = 0
    /\ Succeeded => okAt # 0

\* success on a later tick, after a failed first attempt
C5_Witness == Succeeded /\ okAt = 3 /\ outcome.receipt = "r2" /\ err # "nil"

C7_TimersReleased == Ended => (~tickerActive /\ ~timerArmed)

\* success on a tick while the deadline timer was still armed
C7_Witness ==
    /\ Succeeded /\ okAt >= 2 /\ timerCreated /\ tickerCreated
    /\ ctxErr = "canceled" /\ ~parentCancelled

\* C8: at most one query is in flight.
C8_OneQueryInFlight == inFlight <= 1 /\ (inFlight = 1 <=> pc \in {"query1", "queryN"})

\* a tick fires while the third query is in flight
C8_Witness == pc = "queryN" /\ queriesStarted = 3 /\ inFlight = 1 /\ tickPending

\* C9: the call returns a receipt, or a timed-out error that carries no
\* query error; a failed query alone never ends the call.
C9_QueryErrorNotSurfaced ==
    /\ outcome.cause = "none"
    /\ Returned =>
        \/ outcome.kind = "receipt" /\ okAt = queriesStarted
        \/ outcome.kind = "timed out" /\ outcome.receipt = "nil" /\ okAt = 0

\* after a first attempt whose body was no JSON and two more failures
C9_Witness ==
    TimedOut /\ err = "failed to decode response" /\ queriesStarted = 3

\* C10: every call eventually returns (Succeeded, TimedOut or Cancelled),
\* whatever pollInterval and timeout were passed, and stays returned.
C10_Terminates == <>Returned /\ [][Returned => Returned']_vars

\* what does hold: a call with a non-negative pollInterval returns
C10_TerminatesUnlessNegative == (pollInterval >= 0) => <>Returned

\* C19: when two WaitForUserOpReceipt calls on the same client run
\* interleaved, each has its own ticker, deadline and attempt counter: a
\* running call's ticker is active whatever the other call did, its context
\* ends by deadline only at its own deadline, its counter follows its own
\* queries, and the outcome it returns reports its own queries.
C19_CallsAreIndependent ==
    LET running == {"query1", "queryN", "select", "parked", "wokenDone", "wokenTick"}
        own(c) ==
            /\ c.inFlight <= 1
            /\ c.pc \in running => (c.tickerActive /\ c.tickerCreated)
            /\ c.pc \in (running \ {"query1", "queryN"}) =>
                   c.attemptNum = c.queriesStarted + 1
            /\ c.pc = "queryN" => c.attemptNum = c.queriesStarted
            /\ c.timerArmed => (c.ctxErr = "none" /\ now <= c.deadlineAt)
            /\ c.ctxErr = "deadline" => now >= c.deadlineAt
            /\ (c.pc = "returned" /\ c.outcome.kind = "timed out") =>
                   (c.outcome.attempts = c.queriesStarted /\ c.ctxErr = "deadline")
            /\ (c.pc = "returned" /\ c.outcome.kind = "receipt") =>
                   (c.okAt = c.queriesStarted /\ c.outcome.receipt = c.okReceipt)
    IN own(Local) /\ (other.id # 0 => own(other.st))

\* one call has timed out after two queries while the other, with a later
\* deadline, is in its third query with its ticker and its timer running
C19_Witness ==
    /\ TimedOut /\ outcome.attempts = 2
    /\ other.st.pc = "queryN" /\ other.st.queriesStarted = 3
    /\ other.st.tickerActive /\ other.st.timerArmed
    /\ other.st.deadlineAt > deadlineAt

\* C20 as stated: the end of timeoutCtx (cancellation or deadline) never
\* interrupts or alters a query that is in flight.
C20_QueryNeverInterrupted == ~interrupted

\* C20 amended: the poll loop itself acts on the end of timeoutCtx only at
\* its select, so the call does not return while a query is in flight; the
\* query in flight runs under timeoutCtx and may be aborted by its end, and
\* then it fails, no later query succeeds, and the call returns the
\* timed-out error from the select.
C20_AbortedQueryThenSelect ==
    /\ (pc \in {"query1", "queryN"} /\ ctxErr # "none") =>
           (outcome = NoOutcome /\ inFlight = 1)
    /\ TimedOut => inFlight = 0
    /\ interrupted =>
           /\ ctxErr # "none"
           /\ okAt = 0
           /\ pc \in {"select", "queryN", "returned"}
           /\ Returned => TimedOut

\* the caller cancels while the second query is in flight; the query is
\* aborted and the call returns from the select
C20_Witness ==
    /\ interrupted /\ TimedOut /\ cancelInCall /\ ~cancelParked
    /\ queriesStarted = 2 /\ now < deadlineAt

\* C21: on entry a zero pollInterval becomes 2 seconds and a zero timeout
\* 60 seconds, each whatever the other parameter is; every other value is
\* kept, and it is the period of the ticker and the distance of the deadline.
C21_DefaultsOnEntry ==
    [][ (pc = "idle" /\ pc' # "idle") =>
            /\ pollInterval' = (IF pollInterval = 0 THEN 2 ELSE pollInterval)
            /\ timeout' = (IF timeout = 0 THEN 60 ELSE timeout)
            /\ deadlineAt' = now + timeout'
            /\ pc' = "query1" => (tickerActive' /\ nextTickAt' = now + pollInterval') ]_vars

\* a call entered with pollInterval 1 and timeout 0: the ticker runs at 1
\* second, the deadline is 60 seconds away
C21_Witness ==
    /\ pc = "query1" /\ now = 0
    /\ pollInterval = 1 /\ nextTickAt = 1
    /\ timeout = 60 /\ deadlineAt = 60 /\ timerArmed

\* C23: the deadline of a poll call is measured from the start of the call
\* (time 0 of the model's clock): it stays at start + timeout through every
\* query, the timer fires neither before nor after that instant, and once
\* the clock has passed it the context is done whatever query is running.
C23_DeadlineFromCallStart ==
    /\ pc # "idle" => deadlineAt = timeout
    /\ timerArmed => (ctxErr = "none" /\ now <= deadlineAt)
    /\ (timerCreated /\ ctxErr = "deadline") => now >= deadlineAt
    /\ (timerCreated /\ ~Ended /\ now > deadlineAt) => ctxErr # "none"

\* the deadline fires while the first query is still in flight
C23_Witness ==
    /\ pc = "query1" /\ timerCreated
    /\ ctxErr = "deadline"
    /\ now = deadlineAt /\ now > 0

\* C26: once the deadline has fired or the caller has cancelled, the poll
\* starts no further query: no query begun by a tick is begun under a
\* context that is already done.
C26_NoQueryAfterContextEnd == ~(pc = "queryN" /\ queryCtxDone)

\* a tick and the deadline are ready together and the select takes the
\* tick: the second query starts after the deadline has fired
C26_Witness ==
    /\ pc = "queryN" /\ queryCtxDone
    /\ pollInterval = 1 /\ timeout = 1
    /\ ctxErr = "deadline" /\ now = 1
    /\ queriesStarted = 2

\* C27: a poll call that returns has made at least one query, also when
\* its context was done on entry, and a timed-out outcome reports at least
\* one attempt.
C27_AtLeastOneQuery ==
    /\ Returned => queriesStarted >= 1
    /\ TimedOut => outcome.attempts >= 1
    /\ pc \in {"select", "parked", "wokenDone", "wokenTick", "queryN"} =>
           (queriesStarted >= 1 /\ attemptNum >= 2)

\* the caller's context was cancelled before the call: one query, refused,
\* and a timed-out outcome that reports one attempt
C27_Witness ==
    /\ TimedOut
    /\ parentCancelled /\ ~cancelInCall /\ ~timerCreated
    /\ queriesStarted = 1
    /\ outcome.attempts = 1

\* the deadline had passed on entry (a negative timeout)
C27_PastDeadlineOnEntry ==
    /\ TimedOut
    /\ ~parentCancelled /\ timeout < 0
    /\ queriesStarted >= 1
    /\ outcome.attempts = queriesStarted

\* C30: a query counts as a success for the poller only if the HTTP status
\* is 200 and the body is valid JSON without a top-level "error" key (in
\* the code: exactly when it is a receipt, which is then the outcome); a 200
\* response whose body has a top-level "error" key is a not-found failure:
\* the call does not return, it counts the attempt and goes to the select.
C30_QuerySuccess ==
    [][ \A resp \in AllResponses :
          (/\ pc \in {"query1", "queryN"}
           /\ pc' \in {"select", "returned"}
           /\ FirstQueryReturn(resp) \/ TickQueryReturn(resp)) =>
              /\ pc' = "returned" =>
                     /\ resp.net = "ok" /\ resp.status = 200
                     /\ resp.body \notin {"unreadable", "notjson", "error"}
              /\ pc' = "returned" <=>
                     (resp.net = "ok" /\ resp.status = 200 /\ resp.body \in Receipts)
              /\ pc' = "returned" => outcome' = ReceiptOutcome(resp.body)
              /\ (resp.net = "ok" /\ resp.status = 200 /\ resp.body = "error") =>
                     /\ pc' = "select"
                     /\ outcome' = NoOutcome
                     /\ attemptNum' = (IF pc = "query1" THEN 2 ELSE attemptNum + 1)
                     /\ pc = "query1" => err' = "receipt not found yet" ]_vars

\* the first query got a 200 response with an "error" key, the poll went
\* on, and a later query brought the receipt
C30_Witness ==
    /\ Succeeded
    /\ err = "receipt not found yet"
    /\ queriesStarted >= 2
    /\ outcome.receipt \in Receipts

====
